---- MODULE Spec2Model ----
(***************************************************************************)
(* ECDSA over short Weierstrass curves in a prime field.                   *)
(*                                                                         *)
(* Three layers, as in the sources:                                        *)
(*   FiniteField   (src/src/lib.rs)    arithmetic modulo p                 *)
(*   EllipticCurve (src/src/lib.rs)    affine points and the group law     *)
(*   ECDSA         (src/src/ecdsa.rs)  key generation, sign, verify        *)
(*                                                                         *)
(* A BigUint is a natural number.  A panic (assert!, panic!, expect,       *)
(* BigUint underflow, todo!) is the value Panic for a number, PanicPoint   *)
(* for a point, PanicSig for a signature and "panic" for a boolean; a      *)
(* panic unwinds through every caller.                                     *)
(***************************************************************************)
EXTENDS Integers, Sequences, FiniteSets

----------------------------------------------------------------------------
(* Values *)

Panic == 0 - 1

NoVal == 0 - 2

Coor(x, y) == [tag |-> "Coor", x |-> x, y |-> y]

Identity == [tag |-> "Identity", x |-> 0, y |-> 0]

PanicPoint == [tag |-> "Panic", x |-> 0, y |-> 0]

NoPoint == [tag |-> "None", x |-> 0, y |-> 0]

Sig(r, s) == [tag |-> "Sig", r |-> r, s |-> s]

PanicSig == [tag |-> "Panic", r |-> 0, s |-> 0]

NoSig == [tag |-> "None", r |-> 0, s |-> 0]

(* the first panic among vals unwinds; otherwise the call returns result *)
Unwind(vals, onPanic, result) == IF \E v \in vals : v = Panic THEN onPanic ELSE result

----------------------------------------------------------------------------
(* num_bigint::BigUint::modpow: base^exp mod m; panics on a zero modulus *)

RECURSIVE modpow(_, _, _)
modpow(base, exp, m) ==
    IF m = 0 THEN Panic
    ELSE IF exp = 0 THEN 1 % m
    ELSE IF exp % 2 = 1 THEN (base * modpow(base, exp - 1, m)) % m
    ELSE LET h == modpow(base, exp \div 2, m) IN (h * h) % m

----------------------------------------------------------------------------
(* FiniteField *)

FiniteField_add(c, d, p) == modpow(c + d, 1, p)

mult(c, d, p) == modpow(c * d, 1, p)

inv_addition(c, p) == IF ~(c < p) THEN Panic ELSE p - c

subtract(c, d, p) ==
    LET d_inv == inv_addition(d, p)
    IN  Unwind({d_inv}, Panic, FiniteField_add(c, d_inv, p))

inv_multiplication(c, p) == IF p < 2 THEN Panic ELSE modpow(c, p - 2, p)

divide(c, d, p) ==
    LET d_inv == inv_multiplication(d, p)
    IN  Unwind({d_inv}, Panic, mult(c, d_inv, p))

(* ec_generic::FiniteField::inv_mult_prime, called by sign and verify *)
inv_mult_prime(c, p) == IF c = 0 \/ p < 2 THEN Panic ELSE modpow(c, p - 2, p)

----------------------------------------------------------------------------
(* EllipticCurve: ec = [a, b, p], y^2 = x^3 + a x + b mod p *)

is_on_curve(ec, c) ==
    IF c.tag = "Coor"
    THEN LET y2 == modpow(c.y, 2, ec.p)
             x3 == modpow(c.x, 3, ec.p)
             ax == mult(ec.a, c.x, ec.p)
             x3plusax == FiniteField_add(x3, ax, ec.p)
         IN  y2 = FiniteField_add(x3plusax, ec.b, ec.p)
    ELSE TRUE

add(ec, c, d) ==
    IF c.tag = "Panic" \/ d.tag = "Panic" THEN PanicPoint
    ELSE IF ~is_on_curve(ec, c) THEN PanicPoint
    ELSE IF ~is_on_curve(ec, d) THEN PanicPoint
    ELSE IF ~(c # d) THEN PanicPoint
    ELSE IF c.tag = "Identity" THEN d
    ELSE IF d.tag = "Identity" THEN c
    ELSE LET y2minusy1 == subtract(d.y, c.y, ec.p)
             x2minusx1 == subtract(d.x, c.x, ec.p)
             s == divide(y2minusy1, x2minusx1, ec.p)
             s2 == modpow(s, 2, ec.p)
             s2minusx1 == subtract(s2, c.x, ec.p)
             x3 == subtract(s2minusx1, d.x, ec.p)
             x1minusx3 == subtract(c.x, x3, ec.p)
             sx1minusx3 == mult(s, x1minusx3, ec.p)
             y3 == subtract(sx1minusx3, c.y, ec.p)
         IN  IF y2minusy1 = Panic \/ x2minusx1 = Panic THEN PanicPoint
             ELSE IF s2minusx1 = Panic THEN PanicPoint
             ELSE IF x3 = Panic THEN PanicPoint
             ELSE IF x1minusx3 = Panic THEN PanicPoint
             ELSE IF y3 = Panic THEN PanicPoint
             ELSE Coor(x3, y3)

(* doubling: the body in lib.rs is todo!(); this is the rule of the       *)
(* specification, section 4.2.3                                            *)
double(ec, c) ==
    IF c.tag = "Panic" THEN PanicPoint
    ELSE IF c.tag = "Identity" THEN Identity
    ELSE IF c.y = 0 THEN Identity
    ELSE LET x2 == modpow(c.x, 2, ec.p)
             num == FiniteField_add(mult(3, x2, ec.p), ec.a, ec.p)
             den == mult(2, c.y, ec.p)
             den_inv == inv_mult_prime(den, ec.p)
             s == mult(num, den_inv, ec.p)
             s2 == modpow(s, 2, ec.p)
             s2minusx == subtract(s2, c.x, ec.p)
             x3 == subtract(s2minusx, c.x, ec.p)
             xminusx3 == subtract(c.x, x3, ec.p)
             y3 == subtract(mult(s, xminusx3, ec.p), c.y, ec.p)
         IN  IF den_inv = Panic \/ s2minusx = Panic THEN PanicPoint
             ELSE IF y3 = Panic THEN PanicPoint
             ELSE Coor(x3, y3)

(* scalar multiplication: the body in lib.rs is todo!(); double-and-add   *)
(* from the most significant bit, specification section 4.2.4             *)
RECURSIVE double_and_add(_, _, _)
double_and_add(ec, c, d) ==
    IF d = 0 THEN Identity
    ELSE LET R == double(ec, double_and_add(ec, c, d \div 2))
         IN  IF d % 2 = 1 THEN add(ec, R, c) ELSE R

scalar_mul(ec, c, d) ==
    IF c.tag = "Panic" THEN PanicPoint
    ELSE IF d = 0 \/ c.tag = "Identity" THEN Identity
    ELSE double_and_add(ec, c, d)

----------------------------------------------------------------------------
(* ECDSA: ecdsa = [elliptic_curve, a_gen, q_order] *)

generate_pub_key(ecdsa, priv_key) ==
    scalar_mul(ecdsa.elliptic_curve, ecdsa.a_gen, priv_key)

sign(ecdsa, hash, priv_key, k_random) ==
    IF ~(hash < ecdsa.q_order) THEN PanicSig
    ELSE IF ~(priv_key < ecdsa.q_order) THEN PanicSig
    ELSE IF ~(k_random < ecdsa.q_order) THEN PanicSig
    ELSE LET r_point == scalar_mul(ecdsa.elliptic_curve, ecdsa.a_gen, k_random)
         IN  IF r_point.tag = "Coor"
             THEN LET r == r_point.x
                      s1 == mult(r, priv_key, ecdsa.q_order)
                      s2 == FiniteField_add(s1, hash, ecdsa.q_order)
                      k_inv == inv_mult_prime(k_random, ecdsa.q_order)
                      s == mult(s2, k_inv, ecdsa.q_order)
                  IN  Unwind({k_inv}, PanicSig, Sig(r, s))
             ELSE PanicSig

(* verify_point with u1 reduced modulo the field prime p instead of the   *)
(* group order q                                                          *)
verify_point_mixed_moduli(ecdsa, hash, pub_key, signature) ==
    LET r == signature.r
        s == signature.s
        s_inv == inv_mult_prime(s, ecdsa.q_order)
        u1 == mult(s_inv, hash, ecdsa.elliptic_curve.p)
        u2 == mult(s_inv, r, ecdsa.q_order)
        u1a == scalar_mul(ecdsa.elliptic_curve, ecdsa.a_gen, u1)
        u2b == scalar_mul(ecdsa.elliptic_curve, pub_key, u2)
    IN  IF s_inv = Panic THEN PanicPoint
        ELSE add(ecdsa.elliptic_curve, u1a, u2b)

(* the point P = u1 A + u2 B that verify reconstructs *)
verify_point(ecdsa, hash, pub_key, signature) ==
    LET r == signature.r
        s == signature.s
        s_inv == inv_mult_prime(s, ecdsa.q_order)
        u1 == mult(s_inv, hash, ecdsa.q_order)
        u2 == mult(s_inv, r, ecdsa.q_order)
        u1a == scalar_mul(ecdsa.elliptic_curve, ecdsa.a_gen, u1)
        u2b == scalar_mul(ecdsa.elliptic_curve, pub_key, u2)
    IN  IF s_inv = Panic THEN PanicPoint
        ELSE add(ecdsa.elliptic_curve, u1a, u2b)

(* verify comparing the x-coordinate and r as residues modulo q *)
verify_reduced(ecdsa, hash, pub_key, signature) ==
    IF ~(hash < ecdsa.q_order) THEN "panic"
    ELSE LET p == verify_point(ecdsa, hash, pub_key, signature)
         IN  IF p.tag = "Coor"
             THEN (IF p.x % ecdsa.q_order = signature.r % ecdsa.q_order
                   THEN "true" ELSE "false")
             ELSE "panic"

(* the result is "true" or "false", or "panic" when verify does not return *)
verify(ecdsa, hash, pub_key, signature) ==
    IF ~(hash < ecdsa.q_order) THEN "panic"
    ELSE LET p == verify_point(ecdsa, hash, pub_key, signature)
         IN  IF p.tag = "Coor"
             THEN (IF p.x = signature.r THEN "true" ELSE "false")
             ELSE "panic"

(* hex::decode of the digest string, a sequence of hexadecimal digits *)
hex_decode(digest) ==
    IF Len(digest) % 2 = 1 THEN <<Panic>>
    ELSE [i \in 1 .. (Len(digest) \div 2) |-> 16 * digest[2 * i - 1] + digest[2 * i]]

RECURSIVE from_bytes_be(_)
from_bytes_be(bytes) ==
    IF Len(bytes) = 0 THEN 0
    ELSE 256 * from_bytes_be(SubSeq(bytes, 1, Len(bytes) - 1)) + bytes[Len(bytes)]

(* the reduction of standard ECDSA, modulo max and without the + 1 *)
generate_hash_mod_max(digest, max) ==
    LET hash_bytes == hex_decode(digest)
        hash == from_bytes_be(hash_bytes)
    IN  IF hash_bytes = <<Panic>> THEN Panic
        ELSE modpow(hash, 1, max)

(* digest is the hexadecimal string sha256::digest(message) returns *)
generate_hash_less_than(digest, max) ==
    LET hash_bytes == hex_decode(digest)
        hash == from_bytes_be(hash_bytes)
    IN  IF hash_bytes = <<Panic>> THEN Panic
        ELSE IF max < 1 THEN Panic
        ELSE LET reduced == modpow(hash, 1, max - 1)
             IN  Unwind({reduced}, Panic, reduced + 1)

----------------------------------------------------------------------------
(* Contexts and inputs *)

(* scalars offered to an operation run from 0 to its modulus + MaxOver *)
MaxOver == 0

(* digests are DigestBytes bytes long, two hexadecimal digits a byte *)
DigestBytes == 1

(* the toy context of the tests *)
ToyContext ==
    [elliptic_curve |-> [a |-> 2, b |-> 2, p |-> 17],
     a_gen |-> Coor(5, 1),
     q_order |-> 19]

(* y^2 = x^3 + 7, the equation of the secp256k1 tests, over a field small  *)
(* enough to enumerate: p = 13 and a group of prime order 7 < p            *)
SmallContext ==
    [elliptic_curve |-> [a |-> 0, b |-> 7, p |-> 13],
     a_gen |-> Coor(7, 5),
     q_order |-> 7]

Contexts == {ToyContext, SmallContext}

Scalars(q) == 0 .. (q + MaxOver)

(* the values offered as r: sign takes r from [0, p), verify reduces it   *)
(* modulo q                                                               *)
RValues(e) ==
    Scalars(IF e.elliptic_curve.p > e.q_order THEN e.elliptic_curve.p ELSE e.q_order)

(* public keys offered to verify by a forger: the identity, the generator, *)
(* and two points off the curve                                            *)
ForgedKeys(e) ==
    {Identity, e.a_gen,
     Coor(e.a_gen.x, (e.a_gen.y + 1) % e.elliptic_curve.p),
     Coor(0, 0)}

(* every pair of field elements, on the curve or not, and the identity *)
Points(ec) ==
    {Identity} \cup {Coor(x, y) : x \in 0 .. (ec.p - 1), y \in 0 .. (ec.p - 1)}

(* the moduli of the tests and of the contexts *)
Moduli(e) == {e.elliptic_curve.p, e.q_order, 11, 51}

HexDigits == {0, 1, 7, 15}

RECURSIVE HexStrings(_)
HexStrings(n) ==
    IF n = 0 THEN {<<>>}
    ELSE {Append(s, x) : s \in HexStrings(n - 1), x \in HexDigits}

Digests == HexStrings(2 * DigestBytes)

----------------------------------------------------------------------------
(* State *)

VARIABLES ecdsa, pc, hash, priv_key, k_random, signature, pub_key,
          v_hash, v_signature, verify_result, call, ret

vars == <<ecdsa, pc, hash, priv_key, k_random, signature, pub_key,
          v_hash, v_signature, verify_result, call, ret>>

NoCall == <<"none">>

Init ==
    /\ ecdsa \in Contexts
    /\ pc = "start"
    /\ hash = NoVal
    /\ priv_key = NoVal
    /\ k_random = NoVal
    /\ signature = NoSig
    /\ pub_key = NoPoint
    /\ v_hash = NoVal
    /\ v_signature = NoSig
    /\ verify_result = "none"
    /\ call = NoCall
    /\ ret = NoVal

(* let pub_key = ecdsa.generate_pub_key(&priv_key) *)
GeneratePubKey ==
    /\ pc = "start"
    /\ \E d \in Scalars(ecdsa.q_order) :
            /\ priv_key' = d
            /\ pub_key' = generate_pub_key(ecdsa, d)
    /\ pc' = "keyed"
    /\ UNCHANGED <<ecdsa, hash, k_random, signature, v_hash, v_signature,
                   verify_result, call, ret>>

(* let signature = ecdsa.sign(&hash, &priv_key, &k_random) *)
Sign ==
    /\ pc = "keyed"
    /\ \E h \in Scalars(ecdsa.q_order), k \in Scalars(ecdsa.q_order) :
            /\ hash' = h
            /\ k_random' = k
            /\ signature' = sign(ecdsa, h, priv_key, k)
    /\ pc' = "signed"
    /\ UNCHANGED <<ecdsa, priv_key, pub_key, v_hash, v_signature,
                   verify_result, call, ret>>

(* let verify_result = ecdsa.verify(&h, &pub_key, &sig) *)
Verify(h, sig) ==
    /\ pc' = "verified"
    /\ v_hash' = h
    /\ v_signature' = sig
    /\ verify_result' = verify(ecdsa, h, pub_key, sig)
    /\ UNCHANGED <<ecdsa, hash, priv_key, k_random, signature, pub_key, call, ret>>

Signed == pc = "signed" /\ signature.tag = "Sig"

VerifyRoundTrip == Signed /\ Verify(hash, signature)

VerifyTamperedMessage ==
    /\ Signed
    /\ \E h2 \in Scalars(ecdsa.q_order) \ {hash} : Verify(h2, signature)

VerifyTamperedSignature ==
    /\ Signed
    /\ \E r2 \in RValues(ecdsa) \ {signature.r} :
            Verify(hash, Sig(r2, signature.s))

(* verify on a public key and a signature that no signer produced *)
VerifyForged ==
    /\ pc = "start"
    /\ \E h \in Scalars(ecdsa.q_order), Q \in ForgedKeys(ecdsa),
          r \in RValues(ecdsa), s \in Scalars(ecdsa.q_order) :
            /\ pub_key' = Q
            /\ v_hash' = h
            /\ v_signature' = Sig(r, s)
            /\ verify_result' = verify(ecdsa, h, Q, Sig(r, s))
    /\ pc' = "forged"
    /\ UNCHANGED <<ecdsa, hash, priv_key, k_random, signature, call, ret>>

(* a call of a function of FiniteField, of EllipticCurve or of the hash   *)
(* reduction: call holds the function and its arguments, ret its result   *)
Return(c, r) ==
    /\ call' = c
    /\ ret' = r
    /\ pc' = "called"
    /\ UNCHANGED <<ecdsa, hash, priv_key, k_random, signature, pub_key,
                   v_hash, v_signature, verify_result>>

InvAddition ==
    /\ pc = "start"
    /\ \E p \in Moduli(ecdsa) : \E c \in Scalars(p) :
            Return(<<"inv_addition", c, p>>, inv_addition(c, p))

Subtract ==
    /\ pc = "start"
    /\ \E p \in Moduli(ecdsa) : \E c \in Scalars(p), d \in Scalars(p) :
            Return(<<"subtract", c, d, p>>, subtract(c, d, p))

PointAdd ==
    /\ pc = "start"
    /\ \E c \in Points(ecdsa.elliptic_curve), d \in Points(ecdsa.elliptic_curve) :
            Return(<<"add", c, d>>, add(ecdsa.elliptic_curve, c, d))

GenerateHash ==
    /\ pc = "start"
    /\ \E digest \in Digests, max \in Scalars(ecdsa.q_order) :
            Return(<<"generate_hash_less_than", digest, max>>,
                   generate_hash_less_than(digest, max))

----------------------------------------------------------------------------
(* Specifications: one for each group of operations *)

NextSign == GeneratePubKey \/ Sign \/ VerifyRoundTrip

SpecSign == Init /\ [][NextSign]_vars

NextTamperedMessage == GeneratePubKey \/ Sign \/ VerifyTamperedMessage

SpecTamperedMessage == Init /\ [][NextTamperedMessage]_vars

NextTamperedSignature == GeneratePubKey \/ Sign \/ VerifyTamperedSignature

SpecTamperedSignature == Init /\ [][NextTamperedSignature]_vars

NextForged == VerifyForged

SpecForged == Init /\ [][NextForged]_vars

NextField == InvAddition \/ Subtract

SpecField == Init /\ [][NextField]_vars

NextCurve == PointAdd

SpecCurve == Init /\ [][NextCurve]_vars

NextHash == GenerateHash

SpecHash == Init /\ [][NextHash]_vars

----------------------------------------------------------------------------
(* Properties *)

q == ecdsa.q_order

InRange(x) == 0 < x /\ x < q

(* the inputs of the signature in hand satisfy 0 < h, d, k < q *)
ValidInputs == InRange(hash) /\ InRange(priv_key) /\ InRange(k_random)

(* C1: for every valid h, d, k, verify(h, generate_pub_key(d), sign(h, d, k)) *)
(* returns true: it neither returns false nor fails                        *)
RoundTripVerifies ==
    (pc = "verified" /\ ValidInputs /\ v_hash = hash /\ v_signature = signature)
        => verify_result = "true"

(* a verification of the signature in hand against another hash in range *)
TamperedMessage ==
    /\ pc = "verified"
    /\ ValidInputs
    /\ v_signature = signature
    /\ InRange(v_hash)
    /\ v_hash # hash

(* the one other hash the signature is valid for: (r, s) is also the      *)
(* signature of h' = -(h + 2 r d) mod q under the nonce -k                *)
MirrorHash == (v_hash + hash + 2 * signature.r * priv_key) % q = 0

(* u1 + u2 d = 0 mod q: the point verify reconstructs is u1 A + (-u1 A)   *)
CancellingHash == (v_hash + signature.r * priv_key) % q = 0

TamperedSignature ==
    /\ pc = "verified"
    /\ ValidInputs
    /\ v_hash = hash
    /\ v_signature.s = signature.s
    /\ v_signature.r # signature.r

(* (r', s) is what sign returns for the same h and d under some nonce *)
GenuineUnderAnotherNonce ==
    \E k2 \in 1 .. (q - 1) : sign(ecdsa, hash, priv_key, k2) = v_signature

(* u1 + u2 d = 0 mod q for the tampered r' *)
CancellingSignature == (hash + v_signature.r * priv_key) % q = 0

SignatureComponentsNonZero ==
    (pc = "signed" /\ ValidInputs /\ signature.tag = "Sig")
        => (signature.r # 0 /\ signature.s # 0)

(* C5: sign returns a signature only when 0 < h < q, 0 < d < q and         *)
(* 0 < k < q; it fails whenever one of them is 0 or is at least q         *)
SignEnforcesPreconditions ==
    (pc = "signed" /\ signature.tag = "Sig") => ValidInputs

(* C6: for every h in range, every point Q and every (r, s), verify        *)
(* returns a boolean and does not fail; it returns false when r or s is    *)
(* outside [1, q) and when the reconstructed point is the identity        *)
VerifyNeverFails ==
    (pc = "forged" /\ InRange(v_hash))
        => /\ verify_result \in {"true", "false"}
           /\ (~InRange(v_signature.r) \/ ~InRange(v_signature.s))
                => verify_result = "false"
           /\ verify_point(ecdsa, v_hash, pub_key, v_signature) = Identity
                => verify_result = "false"

HashCall == pc = "called" /\ call[1] = "generate_hash_less_than"

(* the integer a string of hexadecimal digits denotes *)
RECURSIVE HexValue(_)
HexValue(digits) ==
    IF Len(digits) = 0 THEN 0
    ELSE 16 * HexValue(SubSeq(digits, 1, Len(digits) - 1)) + digits[Len(digits)]

(* C7: for every digest integer H and every max >= 2,                      *)
(* generate_hash_less_than returns (H mod (max - 1)) + 1, so 0 < h < max;  *)
(* with max = q the result is in the range sign and verify require of h   *)
HashReduction ==
    (HashCall /\ call[3] >= 2)
        => /\ ret = (HexValue(call[2]) % (call[3] - 1)) + 1
           /\ 0 < ret /\ ret < call[3]
           /\ call[3] = q => InRange(ret)

(* a digest at least q is reduced into [1, q) *)
HashReductionWitness ==
    /\ HashCall
    /\ call[3] = q
    /\ HexValue(call[2]) >= q
    /\ InRange(ret)

(* C8: the r that sign returns for valid h, d, k is the x-coordinate of    *)
(* k G reduced modulo q, so r < q, also when p is larger than q           *)
SignatureRIsReducedModQ ==
    (pc = "signed" /\ ValidInputs /\ signature.tag = "Sig")
        => /\ signature.r =
                scalar_mul(ecdsa.elliptic_curve, ecdsa.a_gen, k_random).x % q
           /\ signature.r < q

(* C9: for every c with 0 <= c < p, inv_addition(c, p) returns             *)
(* (p - c) mod p, a value in [0, p); for c >= p it fails                  *)
AdditiveInverseCanonical ==
    (pc = "called" /\ call[1] = "inv_addition")
        => IF call[2] < call[3]
           THEN /\ ret = (call[3] - call[2]) % call[3]
                /\ 0 <= ret /\ ret < call[3]
           ELSE ret = Panic

OnCurve(c) == is_on_curve(ecdsa.elliptic_curve, c)

Negated(c) == Coor(c.x, (ecdsa.elliptic_curve.p - c.y) % ecdsa.elliptic_curve.p)

(* C10: for every point P on the curve, add(P, Infinity) = P and           *)
(* add(Infinity, P) = P; for every affine P on the curve,                 *)
(* add(P, -P) = Infinity with -P = (x, (p - y) mod p)                     *)
GroupIdentity ==
    (pc = "called" /\ call[1] = "add" /\ OnCurve(call[2]) /\ OnCurve(call[3]))
        => /\ call[3] = Identity => ret = call[2]
           /\ call[2] = Identity => ret = call[3]
           /\ (call[2].tag = "Coor" /\ call[3] = Negated(call[2]))
                => ret = Identity

(* C11: for every affine point P on the curve, add(P, P) does not fail    *)
(* and returns double(P): Infinity when y = 0, otherwise the              *)
(* tangent-slope result, which is on the curve                            *)
AddOfEqualPointsDoubles ==
    (pc = "called" /\ call[1] = "add" /\ call[2].tag = "Coor"
        /\ OnCurve(call[2]) /\ call[3] = call[2])
        => /\ ret # PanicPoint
           /\ ret = double(ecdsa.elliptic_curve, call[2])
           /\ call[2].y = 0 => ret = Identity
           /\ OnCurve(ret)

====
